---- MODULE Spec2Model ----
(***************************************************************************)
(* Model of fix_notebook_widgets.py: the metadata fixer                    *)
(* (fix_widgets_metadata), the batch processor (process_notebooks), the    *)
(* directory scan (iterate_notebooks) and the driver loop of main.         *)
(*                                                                         *)
(* A parsed JSON value is a record tagged by its Python type:              *)
(*   [t |-> "null"], [t |-> "number"], [t |-> "string", s |-> <<chars>>],  *)
(*   [t |-> "list", items |-> <<values>>], [t |-> "mapping", m |-> f]      *)
(* where f is a function from the keys present to their values.            *)
(***************************************************************************)
EXTENDS Integers, Sequences, FiniteSets, TLC

VARIABLES
    \* ---- one call sequence of fix_widgets_metadata on one tree ----
    tree,            \* the tree the caller owns (mutated in place)
    remove_widgets,  \* the mode flag (shared by both specifications)
    before,          \* the tree as it was when the latest call started
    rets,            \* the outcome of each call so far, in order:
                     \* "true" | "false" (returned) or "raised"
    \* ---- one run of main ----
    fs,              \* path -> file content
    fs0,             \* the file system at the start of the run
    args,            \* args.paths
    recursive,       \* args.recursive
    argi,            \* index of the next element of args.paths
    todo,            \* paths the running process_notebooks has not reached
    nb_path,         \* the path of the current iteration
    fsAtPath,        \* the file system when the current iteration started
    nb_data,         \* the parsed tree of the current iteration
    changed,         \* what fix_widgets_metadata returned for it
    verdict,         \* how the current iteration went so far: "none" |
                     \* "readerror" | "unchanged" | "changed" | "raised"
    pc,              \* position in main / process_notebooks
    halt,            \* "running" | "done" | "uncaught" (an exception left
                     \* main) | "ioerror" (a write failed) | "killed"
    out              \* lines printed so far

fixvars == <<tree, before, rets>>
runvars == <<fs, fs0, args, recursive, argi, todo, nb_path, fsAtPath, nb_data,
             changed, verdict, pc, halt, out>>
vars == <<tree, remove_widgets, before, rets, fs, fs0, args, recursive,
          argi, todo, nb_path, fsAtPath, nb_data, changed, verdict, pc, halt,
          out>>

(***************************************************************************)
(* Bounds of the model.                                                    *)
(***************************************************************************)
MaxCells == 2
MaxArgs == 2
MaxCalls == 2

(***************************************************************************)
(* JSON values.                                                            *)
(***************************************************************************)
NoKeys == [k \in {} |-> 0]
Null == [t |-> "null"]
Num == [t |-> "number"]
Str(chars) == [t |-> "string", s |-> chars]
Lst(items) == [t |-> "list", items |-> items]
Map(f) == [t |-> "mapping", m |-> f]
EmptyMap == Map(NoKeys)

IsMapping(v) == v.t = "mapping"
Has(v, k) == k \in DOMAIN v.m
Del(f, k) == [x \in DOMAIN f \ {k} |-> f[x]]
Put(f, k, v) == [x \in DOMAIN f \cup {k} |-> IF x = k THEN v ELSE f[x]]

\* dict.get(key, default): an AttributeError on anything but a mapping is
\* the caller's to model; this is the lookup on a mapping.
Get(v, k, default) == IF Has(v, k) THEN v.m[k] ELSE default

(***************************************************************************)
(* fix_widgets_metadata.                                                   *)
(* An exception leaves the tree with the mutations made before it (the     *)
(* tree is mutated in place) and loses the value of `changed`.             *)
(***************************************************************************)
Raised(nb) == [tree |-> nb, changed |-> FALSE, raised |-> TRUE]

\* `widgets is not None`: dict.get returns None for an absent key, and a
\* JSON null is parsed to None, so the two are not told apart.
IsNotNone(widgets) == widgets.t # "null"

\* Mutant of LacksState: the "state" test is left out.
LacksState_IgnoresState(widgets) == IsMapping(widgets)

\* `isinstance(widgets, dict) and "state" not in widgets`
LacksState(widgets) == IsMapping(widgets) /\ ~Has(widgets, "state")

\* Mutant of AddState: the mapping is replaced, not extended.
AddState_DropsOthers(widgets) == Map([state |-> EmptyMap])

\* `widgets["state"] = {}`
AddState(widgets) == Map(Put(widgets.m, "state", EmptyMap))

\* Mutant of FixDocWidgets: `changed = True` is set whatever was found.
FixDocWidgets_AlwaysTrue(meta, remove) ==
    LET widgets == Get(meta, "widgets", Null)
    IN  IF widgets.t # "null"
        THEN IF remove
             THEN [meta |-> Map(Del(meta.m, "widgets")), changed |-> TRUE]
             ELSE IF IsMapping(widgets) /\ ~Has(widgets, "state")
                  THEN [meta |-> Map(Put(meta.m, "widgets",
                                         Map(Put(widgets.m, "state", EmptyMap)))),
                        changed |-> TRUE]
                  ELSE [meta |-> meta, changed |-> TRUE]
        ELSE [meta |-> meta, changed |-> TRUE]

\* The document-level block, given the metadata mapping `meta`.
FixDocWidgets(meta, remove) ==
    LET widgets == Get(meta, "widgets", Null)
    IN  IF IsNotNone(widgets)
        THEN IF remove
             THEN [meta |-> Map(Del(meta.m, "widgets")), changed |-> TRUE]
             ELSE IF LacksState(widgets)
                  THEN [meta |-> Map(Put(meta.m, "widgets", AddState(widgets))),
                        changed |-> TRUE]
                  ELSE [meta |-> meta, changed |-> FALSE]
        ELSE [meta |-> meta, changed |-> FALSE]

\* Mutant of FixCellWidgets: the insertion does not set `changed`.
FixCellWidgets_ForgetsChanged(cmeta, remove) ==
    LET widgets == Get(cmeta, "widgets", Null)
    IN  IF widgets.t # "null"
        THEN IF remove
             THEN [meta |-> Map(Del(cmeta.m, "widgets")), changed |-> TRUE]
             ELSE IF IsMapping(widgets) /\ ~Has(widgets, "state")
                  THEN [meta |-> Map(Put(cmeta.m, "widgets",
                                         Map(Put(widgets.m, "state", EmptyMap)))),
                        changed |-> FALSE]
                  ELSE [meta |-> cmeta, changed |-> FALSE]
        ELSE [meta |-> cmeta, changed |-> FALSE]

\* The body of the cell loop, given the cell's metadata mapping `cmeta`.
FixCellWidgets(cmeta, remove) ==
    LET widgets == Get(cmeta, "widgets", Null)
    IN  IF IsNotNone(widgets)
        THEN IF remove
             THEN [meta |-> Map(Del(cmeta.m, "widgets")), changed |-> TRUE]
             ELSE IF LacksState(widgets)
                  THEN [meta |-> Map(Put(cmeta.m, "widgets", AddState(widgets))),
                        changed |-> TRUE]
                  ELSE [meta |-> cmeta, changed |-> FALSE]
        ELSE [meta |-> cmeta, changed |-> FALSE]

\* `for cell in <list>` from index i on, `chg` being `changed` so far.
\* cell.get and cmeta.get raise AttributeError on anything but a mapping.
RECURSIVE FixCells(_, _, _, _)
FixCells(cells, i, remove, chg) ==
    IF i > Len(cells)
    THEN [cells |-> cells, changed |-> chg, raised |-> FALSE]
    ELSE LET cell == cells[i]
         IN  IF ~IsMapping(cell)
             THEN [cells |-> cells, changed |-> FALSE, raised |-> TRUE]
             ELSE LET cmeta == Get(cell, "metadata", EmptyMap)
                  IN  IF ~IsMapping(cmeta)
                      THEN [cells |-> cells, changed |-> FALSE, raised |-> TRUE]
                      ELSE LET r == FixCellWidgets(cmeta, remove)
                               \* cmeta is the cell's own mapping, or a fresh
                               \* {} that is not attached to the cell
                               cell2 == IF Has(cell, "metadata")
                                        THEN Map(Put(cell.m, "metadata", r.meta))
                                        ELSE cell
                           IN  FixCells([cells EXCEPT ![i] = cell2], i + 1,
                                        remove, chg \/ r.changed)

\* `for cell in nb_data.get("cells", [])` for whatever value is stored under
\* "cells": a list yields its items; a string yields its characters and a
\* mapping its keys (strings: the first cell.get raises); null and numbers
\* are not iterable (TypeError).
FixCellsValue(nb, remove, chg) ==
    LET cellsv == Get(nb, "cells", Lst(<<>>))
    IN  CASE cellsv.t = "list" ->
                LET c == FixCells(cellsv.items, 1, remove, chg)
                IN  [tree |-> IF Has(nb, "cells")
                              THEN Map(Put(nb.m, "cells", Lst(c.cells)))
                              ELSE nb,
                     changed |-> c.changed, raised |-> c.raised]
          [] cellsv.t = "string" ->
                IF cellsv.s = <<>>
                THEN [tree |-> nb, changed |-> chg, raised |-> FALSE]
                ELSE Raised(nb)
          [] cellsv.t = "mapping" ->
                IF DOMAIN cellsv.m = {}
                THEN [tree |-> nb, changed |-> chg, raised |-> FALSE]
                ELSE Raised(nb)
          [] OTHER -> Raised(nb)

\* The whole function: [tree |-> the tree afterwards, changed |-> the value
\* returned, raised |-> whether an exception left the function instead].
fix_widgets_metadata(nb, remove) ==
    IF ~IsMapping(nb)
    THEN Raised(nb)
    ELSE LET meta == Get(nb, "metadata", EmptyMap)
         IN  IF ~IsMapping(meta)
             THEN Raised(nb)
             ELSE LET d == FixDocWidgets(meta, remove)
                      \* meta is the document's own mapping, or a fresh
                      \* {} that is not attached to the document
                      nb1 == IF Has(nb, "metadata")
                             THEN Map(Put(nb.m, "metadata", d.meta))
                             ELSE nb
                  IN  FixCellsValue(nb1, remove, d.changed)

(***************************************************************************)
(* The trees the model draws its inputs from.                              *)
(***************************************************************************)
StateVal == Map([x |-> Num])
WidgetMaps == {EmptyMap, Map([a |-> Num]), Map([state |-> StateVal]),
               Map([a |-> Num, state |-> StateVal])}
WidgetVals == {Null, Num, Lst(<<>>)} \cup WidgetMaps

\* What may be stored under "metadata", of the document or of a cell: a
\* mapping with or without "widgets", with or without another entry; or
\* not a mapping at all.
MetaVals ==
    {EmptyMap, Map([kernelspec |-> Num]), Null}
    \cup {Map([widgets |-> w]) : w \in WidgetVals}
    \cup {Map([widgets |-> w, kernelspec |-> Num]) : w \in WidgetVals}

CellVals ==
    {Num, Map([source |-> Lst(<<>>)])}
    \cup {Map([source |-> Lst(<<>>), metadata |-> mv]) : mv \in MetaVals}

CellLists(n) == UNION {[1..k -> CellVals] : k \in 0..n}

\* What may be stored under "cells".
CellsVals(n) ==
    {Lst(c) : c \in CellLists(n)}
    \cup {Null, Num, Str(<<>>), Str(<<"a">>), EmptyMap, Map([a |-> Num])}

\* The mappings json.loads may hand to the fixer, cells bounded by n.
Trees(n) ==
    {Map([nbformat |-> Num])}
    \cup {Map([nbformat |-> Num, metadata |-> mv]) : mv \in MetaVals}
    \cup {Map([nbformat |-> Num, cells |-> cv]) : cv \in CellsVals(n)}
    \cup {Map([nbformat |-> Num, metadata |-> mv, cells |-> cv]) :
            mv \in MetaVals, cv \in CellsVals(n)}

(***************************************************************************)
(* FixSpec: fix_widgets_metadata called twice in succession, in one mode,  *)
(* on one tree.                                                            *)
(***************************************************************************)
IdleRun ==
    /\ fs = NoKeys /\ fs0 = NoKeys /\ args = <<>> /\ recursive = FALSE
    /\ argi = 1 /\ todo = <<>> /\ nb_path = Null /\ fsAtPath = NoKeys
    /\ nb_data = Null /\ changed = FALSE /\ verdict = "none"
    /\ pc = "idle" /\ halt = "done" /\ out = <<>>

FixInit ==
    /\ tree \in Trees(MaxCells)
    /\ remove_widgets \in BOOLEAN
    /\ before = tree
    /\ rets = <<>>
    /\ IdleRun

CallFix ==
    /\ Len(rets) < MaxCalls
    /\ LET r == fix_widgets_metadata(tree, remove_widgets)
       IN  /\ tree' = r.tree
           /\ rets' = Append(rets, IF r.raised THEN "raised"
                                   ELSE IF r.changed THEN "true" ELSE "false")
    /\ before' = tree
    /\ UNCHANGED <<remove_widgets, runvars>>

FixNext == CallFix

FixSpec == FixInit /\ [][FixNext]_vars

(***************************************************************************)
(* Paths and files.                                                        *)
(* A path is [parent |-> <<components>>, stem, suffix] as pathlib splits   *)
(* it; a file's content is its kind and, for text, the way it is laid out  *)
(* and the JSON value it spells.                                           *)
(***************************************************************************)
NoPath == [parent |-> <<>>, stem |-> "", suffix |-> ""]
DirD == [parent |-> <<>>, stem |-> "d", suffix |-> ""]
DirSub == [parent |-> <<"d">>, stem |-> "sub", suffix |-> ""]
NbA == [parent |-> <<"d">>, stem |-> "a", suffix |-> ".ipynb"]
NbB == [parent |-> <<"d", "sub">>, stem |-> "b", suffix |-> ".ipynb"]
Txt == [parent |-> <<"d">>, stem |-> "notes", suffix |-> ".txt"]
Gone == [parent |-> <<"d">>, stem |-> "gone", suffix |-> ".ipynb"]

\* nb_path.with_suffix(nb_path.suffix + ".bak")
BackupPath(p) ==
    [parent |-> p.parent, stem |-> p.stem \o p.suffix, suffix |-> ".bak"]

Notebooks == {NbA, NbB}
AllPaths == {DirD, DirSub, NbA, NbB, Txt, Gone}
            \cup {BackupPath(p) : p \in Notebooks}

NoFile == [k |-> "nofile"]
Dir == [k |-> "dir"]
Undecodable == [k |-> "bytes"]          \* not UTF-8: read_text raises
Truncated == [k |-> "truncated"]        \* what a failed write leaves behind
NotJson == [t |-> "invalid"]            \* text json.loads rejects
Text(fmt, json) == [k |-> "text", fmt |-> fmt, json |-> json]

is_file(f, p) == f[p].k \notin {"nofile", "dir"}
is_dir(f, p) == f[p].k = "dir"

\* read_text followed by json.loads, both inside the try block.
CanLoad(c) == c.k = "text" /\ c.json # NotJson
Loads(c) == c.json

\* json.dumps(nb_data, indent=2): the layout is the serializer's, whatever
\* the layout of the file that was read.
Dumps(data) == Text("indent2", data)

\* Mutant of Replace: the file is moved onto itself, no backup is made.
Replace_WrongTarget(f, src, dst) == f

\* Path.replace: the file is moved, whatever was at dst is replaced.
Replace(f, src, dst) == [f EXCEPT ![dst] = f[src], ![src] = NoFile]

\* write_text
WriteText(f, p, c) == [f EXCEPT ![p] = c]

IsPrefix(a, b) == Len(a) <= Len(b) /\ SubSeq(b, 1, Len(a)) = a
Joined(dir) == Append(dir.parent, dir.stem \o dir.suffix)

\* iterate_notebooks: base_dir.rglob("*.ipynb") or base_dir.glob("*.ipynb")
iterate_notebooks(f, base_dir, rec) ==
    {p \in AllPaths :
        /\ f[p].k # "nofile"
        /\ p.suffix = ".ipynb"
        /\ IF rec THEN IsPrefix(Joined(base_dir), p.parent)
                  ELSE p.parent = Joined(base_dir)}

\* The orders in which a directory scan may yield a set of paths.
Orders(S) == {q \in [1..Cardinality(S) -> S] : \A p \in S : \E i \in DOMAIN q : q[i] = p}

Line(msg, p) == [msg |-> msg, path |-> p]

(***************************************************************************)
(* The files the run may find.                                             *)
(***************************************************************************)
WidgetsNoState == Map([widgets |-> Map([a |-> Num])])
PlainCell == Map([source |-> Lst(<<>>)])
FileTrees ==
    { Map([nbformat |-> Num]),
      Map([nbformat |-> Num, metadata |-> WidgetsNoState, cells |-> Lst(<<>>)]),
      Map([nbformat |-> Num, metadata |-> EmptyMap,
           cells |-> Lst(<<Map([source |-> Lst(<<>>),
                               metadata |-> Map([widgets |-> Map([state |-> StateVal])])])>>)]),
      Map([nbformat |-> Num, metadata |-> Map([widgets |-> Null])]),
      Map([nbformat |-> Num, metadata |-> WidgetsNoState,
           cells |-> Lst(<<PlainCell,
                           Map([source |-> Lst(<<>>), metadata |-> WidgetsNoState])>>)]),
      Map([nbformat |-> Num, metadata |-> Null]),
      Map([nbformat |-> Num, metadata |-> WidgetsNoState, cells |-> Lst(<<Num>>)]),
      Lst(<<>>) }

ContentsA ==
    {Undecodable, Text("asis", NotJson)}
    \cup {Text(fmt, t) : fmt \in {"asis", "indent2"}, t \in FileTrees}

ContentsB ==
    { Text("asis", NotJson),
      Text("asis", Map([nbformat |-> Num, metadata |-> WidgetsNoState])),
      Text("indent2", Map([nbformat |-> Num])),
      Text("asis", Map([nbformat |-> Num, cells |-> Null])) }

\* A backup an earlier run may have left behind.
StaleBackup == Text("asis", Map([nbformat |-> Num, metadata |-> EmptyMap]))

ArgLists == UNION {[1..n -> {NbA, DirD, Txt, Gone}] : n \in 1..MaxArgs}

(***************************************************************************)
(* Spec: one run of main.                                                  *)
(***************************************************************************)
Init ==
    /\ \E ca \in ContentsA, cb \in ContentsB, old \in {NoFile, StaleBackup} :
          fs = [p \in AllPaths |->
                  CASE p = NbA -> ca
                    [] p = NbB -> cb
                    [] p = BackupPath(NbA) -> old
                    [] p = Txt -> Text("asis", NotJson)
                    [] p \in {DirD, DirSub} -> Dir
                    [] OTHER -> NoFile]
    /\ fs0 = fs
    /\ args \in ArgLists
    /\ recursive \in BOOLEAN
    /\ remove_widgets \in BOOLEAN
    /\ argi = 1
    /\ todo = <<>>
    /\ nb_path = NoPath
    /\ fsAtPath = fs
    /\ nb_data = Null
    /\ changed = FALSE
    /\ verdict = "none"
    /\ pc = "main"
    /\ halt = "running"
    /\ out = <<>>
    /\ tree = Null /\ before = Null /\ rets = <<>>

At(l) == halt = "running" /\ pc = l

\* main: `if p.is_file(): process_notebooks([p], ...)`
MainFile ==
    /\ At("main") /\ argi <= Len(args)
    /\ is_file(fs, args[argi])
    /\ todo' = <<args[argi]>>
    /\ argi' = argi + 1
    /\ pc' = "loop"
    /\ UNCHANGED <<fs, fs0, args, recursive, nb_path, fsAtPath, nb_data,
                   changed, verdict, halt, out, remove_widgets, fixvars>>

\* main: `elif p.is_dir(): ...`; the scan yields the notebooks in any order.
MainDir ==
    /\ At("main") /\ argi <= Len(args)
    /\ ~is_file(fs, args[argi]) /\ is_dir(fs, args[argi])
    /\ LET notebooks == iterate_notebooks(fs, args[argi], recursive)
       IN  /\ todo' \in Orders(notebooks)
           /\ out' = IF notebooks = {}
                     THEN Append(out, Line("No notebooks found", args[argi]))
                     ELSE out
    /\ argi' = argi + 1
    /\ pc' = "loop"
    /\ UNCHANGED <<fs, fs0, args, recursive, nb_path, fsAtPath, nb_data,
                   changed, verdict, halt, remove_widgets, fixvars>>

\* main: `else: print("Path not found")`
MainNotFound ==
    /\ At("main") /\ argi <= Len(args)
    /\ ~is_file(fs, args[argi]) /\ ~is_dir(fs, args[argi])
    /\ out' = Append(out, Line("Path not found", args[argi]))
    /\ argi' = argi + 1
    /\ UNCHANGED <<fs, fs0, args, recursive, todo, nb_path, fsAtPath, nb_data,
                   changed, verdict, pc, halt, remove_widgets, fixvars>>

\* main returns after the last argument.
MainDone ==
    /\ At("main") /\ argi > Len(args)
    /\ halt' = "done"
    /\ UNCHANGED <<fs, fs0, args, recursive, argi, todo, nb_path, fsAtPath,
                   nb_data, changed, verdict, pc, out, remove_widgets, fixvars>>

\* process_notebooks: the list is exhausted, the call returns to main.
LoopEnd ==
    /\ At("loop") /\ todo = <<>>
    /\ pc' = "main"
    /\ nb_path' = NoPath /\ verdict' = "none" /\ changed' = FALSE
    /\ UNCHANGED <<fs, fs0, args, recursive, argi, todo, fsAtPath, nb_data,
                   halt, out, remove_widgets, fixvars>>

\* process_notebooks: `if nb_path.suffix != ".ipynb": continue`
LoopSkip ==
    /\ At("loop") /\ todo # <<>>
    /\ Head(todo).suffix # ".ipynb"
    /\ todo' = Tail(todo)
    /\ nb_path' = NoPath /\ verdict' = "none" /\ changed' = FALSE
    /\ UNCHANGED <<fs, fs0, args, recursive, argi, fsAtPath, nb_data, pc,
                   halt, out, remove_widgets, fixvars>>

\* process_notebooks: the next path is a notebook; its iteration starts.
\* (`changed` is unassigned until the fixer returns; the model holds FALSE.)
LoopNext ==
    /\ At("loop") /\ todo # <<>>
    /\ Head(todo).suffix = ".ipynb"
    /\ nb_path' = Head(todo)
    /\ todo' = Tail(todo)
    /\ fsAtPath' = fs
    /\ verdict' = "none" /\ changed' = FALSE
    /\ pc' = "read"
    /\ UNCHANGED <<fs, fs0, args, recursive, argi, nb_data, halt, out,
                   remove_widgets, fixvars>>

\* Mutant of ReadFail: no except clause, the exception leaves main.
ReadFail_Propagates ==
    /\ At("read") /\ ~CanLoad(fs[nb_path])
    /\ verdict' = "readerror"
    /\ halt' = "uncaught"
    /\ UNCHANGED <<fs, fs0, args, recursive, argi, todo, nb_path, fsAtPath,
                   nb_data, changed, pc, out, remove_widgets, fixvars>>

\* The try block raised: the except clause prints and continues.
ReadFail ==
    /\ At("read") /\ ~CanLoad(fs[nb_path])
    /\ out' = Append(out, Line("Error reading", nb_path))
    /\ verdict' = "readerror"
    /\ pc' = "loop"
    /\ UNCHANGED <<fs, fs0, args, recursive, argi, todo, nb_path, fsAtPath,
                   nb_data, changed, halt, remove_widgets, fixvars>>

\* The try block succeeded.
ReadOk ==
    /\ At("read") /\ CanLoad(fs[nb_path])
    /\ nb_data' = Loads(fs[nb_path])
    /\ pc' = "fix"
    /\ UNCHANGED <<fs, fs0, args, recursive, argi, todo, nb_path, fsAtPath,
                   changed, verdict, halt, out, remove_widgets, fixvars>>

\* Mutant of AfterFix: the backup and the write are not guarded.
AfterFix_Always(chg) == "rename"

\* `if changed:` after the fixer returned.
AfterFix(chg) == IF chg THEN "rename" ELSE "loop"

\* `changed = fix_widgets_metadata(nb_data, ...)`, called outside any try:
\* an exception it raises leaves process_notebooks and main.
Fix ==
    /\ At("fix")
    /\ LET r == fix_widgets_metadata(nb_data, remove_widgets)
       IN  /\ nb_data' = r.tree
           /\ IF r.raised
              THEN /\ halt' = "uncaught"
                   /\ verdict' = "raised"
                   /\ UNCHANGED <<changed, pc>>
              ELSE /\ changed' = r.changed
                   /\ verdict' = IF r.changed THEN "changed" ELSE "unchanged"
                   /\ pc' = AfterFix(r.changed)
                   /\ UNCHANGED halt
    /\ UNCHANGED <<fs, fs0, args, recursive, argi, todo, nb_path, fsAtPath,
                   out, remove_widgets, fixvars>>

\* `nb_path.replace(backup_path)`
Rename ==
    /\ At("rename")
    /\ fs' = Replace(fs, nb_path, BackupPath(nb_path))
    /\ pc' = "write"
    /\ UNCHANGED <<fs0, args, recursive, argi, todo, nb_path, fsAtPath,
                   nb_data, changed, verdict, halt, out, remove_widgets, fixvars>>

\* `nb_path.write_text(json.dumps(nb_data, indent=2))` and the report.
Write ==
    /\ At("write")
    /\ fs' = WriteText(fs, nb_path, Dumps(nb_data))
    /\ out' = Append(out, Line("Fixed widgets metadata", nb_path))
    /\ pc' = "loop"
    /\ UNCHANGED <<fs0, args, recursive, argi, todo, nb_path, fsAtPath,
                   nb_data, changed, verdict, halt, remove_widgets, fixvars>>

\* The write fails (disk full, permissions): the file could not be created,
\* or is left truncated; the OSError leaves main.
WriteFails ==
    /\ At("write")
    /\ \E c \in {NoFile, Truncated} : fs' = WriteText(fs, nb_path, c)
    /\ halt' = "ioerror"
    /\ UNCHANGED <<fs0, args, recursive, argi, todo, nb_path, fsAtPath,
                   nb_data, changed, verdict, pc, out, remove_widgets, fixvars>>

\* The process is killed from outside, wherever it is.
Interrupt ==
    /\ halt = "running"
    /\ halt' = "killed"
    /\ UNCHANGED <<fs, fs0, args, recursive, argi, todo, nb_path, fsAtPath,
                   nb_data, changed, verdict, pc, out, remove_widgets, fixvars>>

Next ==
    \/ MainFile \/ MainDir \/ MainNotFound \/ MainDone
    \/ LoopEnd \/ LoopSkip \/ LoopNext
    \/ ReadFail \/ ReadOk \/ Fix \/ Rename \/ Write
    \/ WriteFails \/ Interrupt

Spec == Init /\ [][Next]_vars

(***************************************************************************)
(* Properties of the batch processor, checked under Spec.                  *)
(***************************************************************************)
Last(seq) == seq[Len(seq)]

\* C2: while a path is being processed, whatever happens (the write fails,
\* the process is killed between the rename and the write), the content the
\* file had when its iteration started is on disk, at the original path or
\* at the backup path: nothing is written to the original path before the
\* original has been moved aside.
C2_OriginalNeverLost ==
    nb_path # NoPath =>
        \/ fs[nb_path] = fsAtPath[nb_path]
        \/ fs[BackupPath(nb_path)] = fsAtPath[nb_path]

\* A write that failed after the rename: the original is in the backup.
C2_Witness ==
    /\ halt = "ioerror" /\ pc = "write"
    /\ fs[nb_path] = Truncated
    /\ fsAtPath[nb_path] # Truncated
    /\ fs[BackupPath(nb_path)] = fsAtPath[nb_path]

\* C6: when reading or parsing a path fails, the failure is printed for
\* that path, the file system is as it was when the iteration started (no
\* backup, no write) and control is back at the head of the loop, with the
\* rest of the list still to do.
C6_ReadFailureLeavesFile ==
    verdict = "readerror" =>
        /\ pc = "loop"
        /\ halt \in {"running", "killed"}
        /\ fs = fsAtPath
        /\ out # <<>>
        /\ Last(out) = Line("Error reading", nb_path)

\* A path that could not be read was reported, left alone, and a later path
\* was fixed.
C6_Witness ==
    \E i \in 1..(Len(out) - 1) :
        /\ out[i].msg = "Error reading"
        /\ out[i + 1].msg = "Fixed widgets metadata"
        /\ out[i + 1].path # out[i].path
        /\ fs[out[i].path] = fs0[out[i].path]
        /\ fs[BackupPath(out[i].path)] = NoFile

\* C7: when the fixer reports no change, the iteration ends there: the
\* rename and the write are reached only after a change, and the file
\* system is as it was when the iteration started.
C7_NoChangeNoWrite ==
    /\ verdict = "unchanged" => (pc = "loop" /\ fs = fsAtPath)
    /\ pc \in {"rename", "write"} => verdict = "changed"

\* A cell whose widgets already have "state": no change, no backup, the
\* file as it was.
C7_Witness ==
    /\ verdict = "unchanged" /\ halt = "running" /\ pc = "loop"
    /\ ~remove_widgets
    /\ fs[nb_path] = fs0[nb_path]
    /\ fs[nb_path].fmt = "asis"
    /\ fs[BackupPath(nb_path)] = NoFile
    /\ IsMapping(nb_data) /\ Has(nb_data, "cells")
    /\ Len(nb_data.m["cells"].items) = 1
    /\ Has(nb_data.m["cells"].items[1].m["metadata"], "widgets")

\* C9: the batch runs to completion: whenever main has stopped of its own
\* accord (by returning, or by an exception that a file's content caused),
\* no argument and no path of the current list is left unprocessed.
C9_BatchCompletes ==
    halt \in {"done", "uncaught"} => (argi > Len(args) /\ todo = <<>>)

\* C10: a backup file written during the run holds the content its
\* document had at the start of the run, also when the document is
\* processed more than once.
C10_BackupKeepsOriginal ==
    \A p \in Notebooks :
        fs[BackupPath(p)] # fs0[BackupPath(p)]
            => fs[BackupPath(p)] = fs0[p]

\* NbA was processed twice in a completed run, fixed the first time; its
\* backup is the original file.
C10_Witness ==
    /\ halt = "done"
    /\ \E i, j \in 1..Len(args) :
          i < j /\ args[i] = NbA /\ args[j] \in {NbA, DirD}
    /\ fs[NbA] # fs0[NbA]
    /\ fs[BackupPath(NbA)] = fs0[NbA]
    /\ fs0[BackupPath(NbA)] # fs0[NbA]

(***************************************************************************)
(* Properties of fix_widgets_metadata, checked under FixSpec.              *)
(* A location is 0 for the document-level metadata and i for the metadata  *)
(* of the i-th cell.                                                       *)
(***************************************************************************)
Returned == rets # <<>> /\ Last(rets) \in {"true", "false"}

CellsOf(t) ==
    IF IsMapping(t) /\ Has(t, "cells") /\ t.m["cells"].t = "list"
    THEN t.m["cells"].items
    ELSE <<>>

Locs(t) == 0..Len(CellsOf(t))

HolderAt(t, loc) == IF loc = 0 THEN t ELSE CellsOf(t)[loc]

\* Whether the metadata mapping at loc exists and has a "widgets" key.
HasWidgetsKey(t, loc) ==
    LET h == HolderAt(t, loc)
    IN  /\ IsMapping(h)
        /\ Has(h, "metadata")
        /\ IsMapping(h.m["metadata"])
        /\ Has(h.m["metadata"], "widgets")

WidgetsAt(t, loc) == HolderAt(t, loc).m["metadata"].m["widgets"]

\* A widgets value that is a mapping without a "state" key.
MappingWithoutState(t, loc) ==
    /\ HasWidgetsKey(t, loc)
    /\ WidgetsAt(t, loc).t = "mapping"
    /\ "state" \notin DOMAIN WidgetsAt(t, loc).m

\* C1: in removal mode, after a call that returned, no "widgets" key that
\* was present before the call (document-level or in a cell, whatever its
\* value: mapping, list, scalar, null) is still present, and the call
\* returned true if there was one.
C1_RemovalDeletesEveryWidgetsKey ==
    (Returned /\ remove_widgets) =>
        /\ \A loc \in Locs(before) :
              HasWidgetsKey(before, loc) => ~HasWidgetsKey(tree, loc)
        /\ (\E loc \in Locs(before) : HasWidgetsKey(before, loc))
              => Last(rets) = "true"

C8_NeverRaises ==
    \A i \in 1..Len(rets) : rets[i] # "raised"

====
